---- MODULE Spec2Model ----
(***************************************************************************)
(* A model of the invoice pipeline of OfficeWork3: llm.py (text           *)
(* normalizer, metadata parser, table builder, spreadsheet appender) and   *)
(* ocr.py (per-image OCR and the batch loop over a folder of images).      *)
(*                                                                         *)
(* Python strings are modelled as sequences of one-character strings, so   *)
(* that str.strip, str.split, str.replace and str.startswith are computed  *)
(* the way Python computes them.                                           *)
(***************************************************************************)
EXTENDS Integers, Sequences, FiniteSets, TLC

VARIABLES
    pc,          \* control point of the operation being run
    raw_text,    \* llm.py:27  content of the text file (None if no file)
    cleaned,     \* llm.py:30  value returned by load_extracted_text
    cleaned2,    \* the normalizer applied to a file holding its own output
    response,    \* llm.py:85  text of the metadata completion
    metadata,    \* llm.py:99  <<trader, invoice_date, billing_period>>
    csv_text,    \* llm.py:105 the table completion given to the table builder
    df_final,    \* llm.py:181 the DataFrame built from it
    xlsx,        \* the spreadsheet file at output_path
    io,          \* file operations of the last append_to_excel call, in order
    status,      \* how the last append_to_excel call ended
    xlsx_before, \* the spreadsheet file when the last append_to_excel call began
    batches,     \* per sheet, the non-empty batches appended so far, in call order
    folder_exists, \* ocr.py:127 whether images_folder is a directory
    files,       \* ocr.py:132 the names os.listdir gives for the folder
    image_paths, \* ocr.py:134 the images to process, in order
    idx,         \* ocr.py:146 the number of the image being processed
    artifact,    \* the text file at output_text_file
    text,        \* llm.py:167 the text the completions are asked about
    log,         \* one record per image the loop has started, in order
    ext_failed   \* whether a call outside the program has failed or hung

normVars  == <<raw_text, cleaned, cleaned2>>
metaVars  == <<response, metadata>>
tableVars == <<csv_text, df_final>>
excelVars == <<xlsx, io, status, xlsx_before, batches>>

batchVars == <<folder_exists, files, image_paths, idx, artifact, text, log, ext_failed>>

vars == <<pc, normVars, metaVars, tableVars, excelVars, batchVars>>

-----------------------------------------------------------------------------
(* Python str primitives *)

NL == "\n"
SP == " "

\* no string: a missing file, a value not yet computed
None == <<"<None>">>

\* the element of a one-element set.  An operator below that uses an argument
\* more than once is written The({ e : x \in {x0} }): the argument x0 is then
\* evaluated once, for x, however often e uses x.
The(S) == CHOOSE r \in S : TRUE

\* str.isspace for the characters of the model
IsSpace(c) == c \in {SP, NL}

\* c * n
Rep(c0, n0) ==
    The({ (
        [i \in 1..n |-> c]
    ) : c \in {c0}, n \in {n0} })

\* the concatenation of a sequence of strings
RECURSIVE Concat(_)
Concat(ss0) ==
    The({ (
        IF ss = <<>> THEN <<>> ELSE Head(ss) \o Concat(Tail(ss))
    ) : ss \in {ss0} })

\* s.startswith(p)
StartsWith(s0, p0) ==
    The({ (
        Len(s) >= Len(p) /\ SubSeq(s, 1, Len(p)) = p
    ) : s \in {s0}, p \in {p0} })

\* s[n:]
Drop(s0, n0) ==
    The({ (
        SubSeq(s, n + 1, Len(s))
    ) : s \in {s0}, n \in {n0} })

\* the positions at which p occurs in s
Occurrences(s0, p0) ==
    The({ (
        {i \in 1..(Len(s) - Len(p) + 1) : SubSeq(s, i, i + Len(p) - 1) = p}
    ) : s \in {s0}, p \in {p0} })

\* s.find(p) + 1: the first position at which p occurs in s, 0 if none
Find(s0, p0) ==
    The({ (
        LET occ == Occurrences(s, p)
        IN  IF occ = {} THEN 0 ELSE CHOOSE i \in occ : \A j \in occ : i <= j
    ) : s \in {s0}, p \in {p0} })

\* p in s
Contains(s, p) == Find(s, p) # 0

\* s.strip(): s without its leading and trailing whitespace
Strip(s0) ==
    The({ (
        LET inked == {i \in 1..Len(s) : ~IsSpace(s[i])}
        IN  IF inked = {} THEN <<>>
            ELSE SubSeq(s, CHOOSE i \in inked : \A j \in inked : i <= j,
                           CHOOSE i \in inked : \A j \in inked : i >= j)
    ) : s \in {s0} })

\* s.replace(old, ""), old non-empty: the non-overlapping occurrences of old,
\* found left to right, are removed in one pass
RECURSIVE Remove(_, _)
Remove(s0, old0) ==
    The({ (
        LET i == Find(s, old)
        IN  IF i = 0 THEN s
            ELSE SubSeq(s, 1, i - 1) \o Remove(Drop(s, i - 1 + Len(old)), old)
    ) : s \in {s0}, old \in {old0} })

\* s.split(sep), sep non-empty: always at least one part
RECURSIVE Split(_, _)
Split(s0, sep0) ==
    The({ (
        LET i == Find(s, sep)
        IN  IF i = 0 THEN <<s>>
            ELSE <<SubSeq(s, 1, i - 1)>> \o Split(Drop(s, i - 1 + Len(sep)), sep)
    ) : s \in {s0}, sep \in {sep0} })

\* sep.join(parts)
RECURSIVE Join(_, _)
Join(parts0, sep0) ==
    The({ (
        IF parts = <<>> THEN <<>>
        ELSE IF Len(parts) = 1 THEN parts[1]
        ELSE parts[1] \o sep \o Join(Tail(parts), sep)
    ) : parts \in {parts0}, sep \in {sep0} })

-----------------------------------------------------------------------------
(* pandas DataFrames, as far as llm.py uses them *)

\* a missing value of a DataFrame (None or NaN)
NaN == <<"<NaN>">>

\* column labels: the positional labels 0, 1, ... of pd.DataFrame(rows) and
\* the names given by df[name] = value
PosCol(k) == [pos |-> k, name |-> ""]
NameCol(n) == [pos |-> -1, name |-> n]

\* pd.DataFrame()
EmptyFrame == [columns |-> <<>>, data |-> <<>>]

\* the largest of a non-empty set of naturals
Max(S) == CHOOSE m \in S : \A n \in S : n <= m

\* pd.DataFrame(rows), rows a non-empty list of lists: as many positional
\* columns as the longest row has cells, the shorter rows filled with None
DataFrame(rows0) ==
    The({ (
        LET width == Max({Len(rows[i]) : i \in 1..Len(rows)})
        IN  [columns |-> [k \in 1..width |-> PosCol(k - 1)],
             data    |-> [i \in 1..Len(rows) |->
                            [k \in 1..width |->
                                IF k <= Len(rows[i]) THEN rows[i][k] ELSE NaN]]]
    ) : rows \in {rows0} })

\* the position of label c among the columns cols, 0 if it is not one
ColIndex(cols0, c0) ==
    The({ (
        IF \E k \in 1..Len(cols) : cols[k] = c
        THEN CHOOSE k \in 1..Len(cols) : cols[k] = c
        ELSE 0
    ) : cols \in {cols0}, c \in {c0} })

\* df[name] = value, value a scalar: the column is overwritten if df has it and
\* is added as the last column otherwise
SetColumn(df0, name0, value0) ==
    The({ (
        LET k == ColIndex(df.columns, NameCol(name))
        IN  IF k # 0
            THEN [df EXCEPT !.data = [i \in 1..Len(df.data) |-> [df.data[i] EXCEPT ![k] = value]]]
            ELSE [columns |-> Append(df.columns, NameCol(name)),
                  data    |-> [i \in 1..Len(df.data) |-> Append(df.data[i], value)]]
    ) : df \in {df0}, name \in {name0}, value \in {value0} })

\* the labels of cols that are not in seen, in their order in cols
RECURSIVE NewLabels(_, _)
NewLabels(cols0, seen0) ==
    The({ (
        IF cols = <<>> THEN <<>>
        ELSE IF ColIndex(seen, Head(cols)) # 0 THEN NewLabels(Tail(cols), seen)
        ELSE <<Head(cols)>> \o NewLabels(Tail(cols), Append(seen, Head(cols)))
    ) : cols \in {cols0}, seen \in {seen0} })

\* the union of the frames' columns, each label where it first appears
RECURSIVE UnionColumns(_, _)
UnionColumns(dfs0, seen0) ==
    The({ (
        IF dfs = <<>> THEN seen
        ELSE UnionColumns(Tail(dfs), seen \o NewLabels(Head(dfs).columns, seen))
    ) : dfs \in {dfs0}, seen \in {seen0} })

\* the rows of df laid out on the columns cols, NaN where df has no such column
Reindexed(df0, cols0) ==
    The({ (
        [i \in 1..Len(df.data) |->
            [k \in 1..Len(cols) |->
                LET j == ColIndex(df.columns, cols[k])
                IN  IF j = 0 THEN NaN ELSE df.data[i][j]]]
    ) : df \in {df0}, cols \in {cols0} })

RECURSIVE ReindexedAll(_, _)
ReindexedAll(dfs0, cols0) ==
    The({ (
        IF dfs = <<>> THEN <<>>
        ELSE Reindexed(Head(dfs), cols) \o ReindexedAll(Tail(dfs), cols)
    ) : dfs \in {dfs0}, cols \in {cols0} })

\* pd.concat(dfs, ignore_index=True), dfs non-empty: an outer join on the
\* columns, unsorted, the frames' rows one after the other
concat(dfs0) ==
    The({ (
        LET cols == UnionColumns(dfs, <<>>)
        IN  [columns |-> cols, data |-> ReindexedAll(dfs, cols)]
    ) : dfs \in {dfs0} })

\* df.empty
DfEmpty(df0) ==
    The({ (
        Len(df.columns) = 0 \/ Len(df.data) = 0
    ) : df \in {df0} })

-----------------------------------------------------------------------------
(* the spreadsheet file *)

\* an empty cell of a sheet
EmptyCell == <<"<empty>">>

\* what a sheet keeps of a value written to a cell: None, NaN and "" all leave
\* the cell empty
Cell(v0) ==
    The({ (
        IF v = NaN \/ v = <<>> THEN EmptyCell ELSE v
    ) : v \in {v0} })

CellRow(row0) ==
    The({ (
        [k \in 1..Len(row) |-> Cell(row[k])]
    ) : row \in {row0} })

CellRows(rows0) ==
    The({ (
        [i \in 1..Len(rows) |-> CellRow(rows[i])]
    ) : rows \in {rows0} })

\* no file at the path
Absent == [exists |-> FALSE, readable |-> FALSE, sheets |-> <<>>]

\* a file that is no workbook (truncated or partly written)
Corrupt == [exists |-> TRUE, readable |-> FALSE, sheets |-> <<>>]

\* a workbook: its sheets in order, each a title and its rows
Workbook(sheets) == [exists |-> TRUE, readable |-> TRUE, sheets |-> sheets]

\* the position of the sheet titled t in the workbook, 0 if it has none
SheetIndex(wb0, t0) ==
    The({ (
        IF \E k \in 1..Len(wb.sheets) : wb.sheets[k].title = t
        THEN CHOOSE k \in 1..Len(wb.sheets) : wb.sheets[k].title = t
        ELSE 0
    ) : wb \in {wb0}, t \in {t0} })

\* the rows of the sheet titled t, none if the workbook has no such sheet
SheetRows(wb0, t0) ==
    The({ (
        IF SheetIndex(wb, t) = 0 THEN <<>> ELSE wb.sheets[SheetIndex(wb, t)].rows
    ) : wb \in {wb0}, t \in {t0} })

-----------------------------------------------------------------------------
(* the parts of the state an operation does not use *)

NormIdle == raw_text = None /\ cleaned = None /\ cleaned2 = None

MetaIdle == response = None /\ metadata = <<None, None, None>>

TableIdle == csv_text = None /\ df_final = EmptyFrame

ExcelIdle ==
    /\ xlsx = Absent
    /\ io = <<>>
    /\ status = "none"
    /\ xlsx_before = Absent
    /\ batches = [s \in {"All_Invoices", "Summary"} |-> <<>>]

\* no text file at the path
NoArtifact == [exists |-> FALSE, from |-> <<>>, lines |-> <<>>]

BatchIdle ==
    /\ folder_exists = FALSE
    /\ files = {}
    /\ image_paths = <<>>
    /\ idx = 0
    /\ artifact = NoArtifact
    /\ text = NoArtifact
    /\ log = <<>>
    /\ ext_failed = FALSE

-----------------------------------------------------------------------------
(* llm.py: load_extracted_text *)

SepEqLen == 70
SepDashLen == 50

SepEq == Rep("=", SepEqLen)
SepDash == Rep("-", SepDashLen)

\* llm.py:30 [line.strip() for line in lines if line.strip()]
RECURSIVE StrippedNonBlank(_)
StrippedNonBlank(lines0) ==
    The({ (
        IF lines = <<>> THEN <<>>
        ELSE (IF Strip(Head(lines)) # <<>> THEN <<Strip(Head(lines))>> ELSE <<>>)
                 \o StrippedNonBlank(Tail(lines))
    ) : lines \in {lines0} })

\* llm.py:29-30 the cleaning of the raw text
CleanText(raw) ==
    LET stripped == Remove(Remove(raw, SepEq), SepDash)
    IN  Join(StrippedNonBlank(Split(stripped, <<NL>>)), <<NL>>)

\* Inputs of the normalizer: up to MaxPieces pieces, each a separator, a part
\* of one, or a character.
MaxPieces == 3

NormPieces ==
    { SepEq, SepDash, Rep("=", SepEqLen \div 2), Rep("-", SepDashLen \div 2),
      <<"x">>, <<SP>>, <<NL>> }

RECURSIVE PieceSeqs(_, _)
PieceSeqs(P, n) ==
    IF n = 0 THEN {<<>>}
    ELSE LET shorter == PieceSeqs(P, n - 1)
         IN  shorter \cup {Append(s, p) : s \in {t \in shorter : Len(t) = n - 1}, p \in P}

NormInputs == {Concat(ps) : ps \in PieceSeqs(NormPieces, MaxPieces)}

InitNorm ==
    /\ pc = "load"
    /\ raw_text \in NormInputs \cup {None}
    /\ cleaned = None
    /\ cleaned2 = None
    /\ MetaIdle /\ TableIdle /\ ExcelIdle /\ BatchIdle

\* llm.py:23-24 the file does not exist: FileNotFoundError
LoadMissing ==
    /\ pc = "load"
    /\ raw_text = None
    /\ pc' = "raised"
    /\ UNCHANGED <<raw_text, cleaned, cleaned2, metaVars, tableVars, excelVars, batchVars>>

\* llm.py:26-32
load_extracted_text ==
    /\ pc = "load"
    /\ raw_text # None
    /\ cleaned' = CleanText(raw_text)
    /\ pc' = "loaded"
    /\ UNCHANGED <<raw_text, cleaned2, metaVars, tableVars, excelVars, batchVars>>

\* the normalizer run on a file that holds its own output
load_again ==
    /\ pc = "loaded"
    /\ cleaned2' = CleanText(cleaned)
    /\ pc' = "reloaded"
    /\ UNCHANGED <<raw_text, cleaned, metaVars, tableVars, excelVars, batchVars>>

NextNorm == LoadMissing \/ load_extracted_text \/ load_again

SpecNorm == InitNorm /\ [][NextNorm]_vars

\* C8: the normalizer's output holds neither separator run (also a run that
\* becomes adjacent only once another separator is removed), and normalizing
\* the output again changes nothing.
NormalizedHasNoSeparator ==
    /\ (pc \in {"loaded", "reloaded"}) =>
           (~Contains(cleaned, SepEq) /\ ~Contains(cleaned, SepDash))
    /\ (pc = "reloaded") => (cleaned2 = cleaned)

-----------------------------------------------------------------------------
(* llm.py: extract_metadata_llm *)

\* llm.py:92, 94, 96 the three label prefixes
TraderLabel == <<"T", "r", "a", "d", "e", "r", " ", "N", "a", "m", "e", ":">>
InvoiceLabel == <<"I", "n", "v", "o", "i", "c", "e", " ", "D", "a", "t", "e", ":">>
BillingLabel == <<"B", "i", "l", "l", "i", "n", "g", " ", "P", "e", "r", "i", "o", "d", ":">>

\* llm.py:91-97 one turn of the loop over the lines: m is
\* <<trader, invoice_date, billing_period>> before the line
ParseLine(m0, rawline0) ==
    The({ (
        LET line == Strip(rawline)
        IN  IF StartsWith(line, TraderLabel)
                THEN [m EXCEPT ![1] = Strip(Remove(line, TraderLabel))]
            ELSE IF StartsWith(line, InvoiceLabel)
                THEN [m EXCEPT ![2] = Strip(Remove(line, InvoiceLabel))]
            ELSE IF StartsWith(line, BillingLabel)
                THEN [m EXCEPT ![3] = Strip(Remove(line, BillingLabel))]
            ELSE m
    ) : m \in {m0}, rawline \in {rawline0} })

\* llm.py:90 for line in output.split("\n")
RECURSIVE ParseLines(_, _)
ParseLines(m0, lines0) ==
    The({ (
        IF lines = <<>> THEN m ELSE ParseLines(ParseLine(m, Head(lines)), Tail(lines))
    ) : m \in {m0}, lines \in {lines0} })

\* llm.py:86-99 the parse of the completion text
ParseMetadata(completion) ==
    ParseLines(<<<<>>, <<>>, <<>>>>, Split(Strip(completion), <<NL>>))

\* Completions: up to MaxRespPieces pieces, each a label or a character.
MaxRespPieces == 5

RespPieces == {TraderLabel, InvoiceLabel, BillingLabel, <<"x">>, <<SP>>, <<NL>>}

MetaResponses == {Concat(ps) : ps \in PieceSeqs(RespPieces, MaxRespPieces)}

InitMeta ==
    /\ pc = "meta"
    /\ response \in MetaResponses
    /\ metadata = <<None, None, None>>
    /\ NormIdle /\ TableIdle /\ ExcelIdle /\ BatchIdle

\* llm.py:85-99 (the completion is `response`)
extract_metadata_llm ==
    /\ pc = "meta"
    /\ metadata' = ParseMetadata(response)
    /\ pc' = "parsed"
    /\ UNCHANGED <<response, normVars, tableVars, excelVars, batchVars>>

NextMeta == extract_metadata_llm

SpecMeta == InitMeta /\ [][NextMeta]_vars

\* the trimmed lines of the completion
ResponseLines == 
    LET lines == Split(Strip(response), <<NL>>)
    IN  [k \in 1..Len(lines) |-> Strip(lines[k])]

\* what C7 gives for a label: the trimmed remainder of a line that starts with
\* the label, "" when no line starts with it
FieldIsRemainder(field, label) ==
    LET labelled == {k \in 1..Len(ResponseLines) : StartsWith(ResponseLines[k], label)}
    IN  IF labelled = {} THEN field = <<>>
        ELSE \E k \in labelled : field = Strip(Drop(ResponseLines[k], Len(label)))

\* C7: each field is the trimmed remainder of the completion line that starts
\* with its label, and "" when no line starts with that label.
MetadataIsLabelRemainder ==
    (pc = "parsed") =>
        /\ FieldIsRemainder(metadata[1], TraderLabel)
        /\ FieldIsRemainder(metadata[2], InvoiceLabel)
        /\ FieldIsRemainder(metadata[3], BillingLabel)

-----------------------------------------------------------------------------
(* llm.py: build_dataframe_from_csv *)

\* llm.py:114 [line.split(",") for line in lines]
SplitCells(lines0) ==
    The({ (
        [i \in 1..Len(lines) |-> Split(lines[i], <<",">>)]
    ) : lines \in {lines0} })

\* llm.py:113-120 the frame of one table block
BlockFrame(tbl0, trader0, invoice_date0, billing_period0) ==
    The({ (
        LET lines == Split(Strip(tbl), <<NL>>)
            df    == DataFrame(SplitCells(lines))
        IN  SetColumn(SetColumn(SetColumn(df, "Trader Name", trader),
                                "Invoice Date", invoice_date),
                      "Billing Period", billing_period)
    ) : tbl \in {tbl0}, trader \in {trader0}, invoice_date \in {invoice_date0}, billing_period \in {billing_period0} })

\* llm.py:110-122 the frames of the blocks that are not blank
RECURSIVE BlockFrames(_, _, _, _)
BlockFrames(tables0, trader0, invoice_date0, billing_period0) ==
    The({ (
        IF tables = <<>> THEN <<>>
        ELSE (IF Strip(Head(tables)) = <<>> THEN <<>>
              ELSE <<BlockFrame(Head(tables), trader, invoice_date, billing_period)>>)
             \o BlockFrames(Tail(tables), trader, invoice_date, billing_period)
    ) : tables \in {tables0}, trader \in {trader0}, invoice_date \in {invoice_date0}, billing_period \in {billing_period0} })

\* llm.py:105-127
build_dataframe_from_csv(csv0, trader0, invoice_date0, billing_period0) ==
    The({ (
        LET tables == Split(Strip(csv), <<NL, NL>>)
            dfs    == BlockFrames(tables, trader, invoice_date, billing_period)
        IN  IF dfs = <<>> THEN EmptyFrame ELSE concat(dfs)
    ) : csv \in {csv0}, trader \in {trader0}, invoice_date \in {invoice_date0}, billing_period \in {billing_period0} })

-----------------------------------------------------------------------------
(* llm.py: append_to_excel *)

\* llm.py:133 the default sheet name, and another one
DefaultSheet == "All_Invoices"
SheetNames == {DefaultSheet, "Summary"}

\* llm.py:140 df.to_excel(path, sheet_name=..., index=False, header=False):
\* a new workbook whose one sheet holds the frame's rows
to_excel(df, sheet_name) ==
    Workbook(<<[title |-> sheet_name, rows |-> CellRows(df.data)]>>)

\* llm.py:149 wb.create_sheet(title=sheet_name)
create_sheet(wb, sheet_name) ==
    [wb EXCEPT !.sheets = Append(@, [title |-> sheet_name, rows |-> <<>>])]

\* llm.py:153 ws.append(list(row)): the row lands after the last row
ws_append_first(rows, row) == <<CellRow(row)>> \o rows

ws_append(rows, row) == Append(rows, CellRow(row))

\* llm.py:152-153 for row in df_new.itertuples(...): ws.append(list(row))
RECURSIVE AppendRows(_, _)
AppendRows(rows0, new0) ==
    The({ (
        IF new = <<>> THEN rows ELSE AppendRows(ws_append(rows, Head(new)), Tail(new))
    ) : rows \in {rows0}, new \in {new0} })

\* llm.py:145-153 the workbook as it is handed to wb.save
AppendedWorkbook(wb0, df0, sheet_name0) ==
    The({ (
        LET wb1 == IF SheetIndex(wb, sheet_name) # 0 THEN wb ELSE create_sheet(wb, sheet_name)
            k   == SheetIndex(wb1, sheet_name)
        IN  [wb1 EXCEPT !.sheets[k].rows = AppendRows(@, df.data)]
    ) : wb \in {wb0}, df \in {df0}, sheet_name \in {sheet_name0} })

\* a call's end: the file it leaves, its file operations, and how it ended
Outcome(file, ops, how) == [file |-> file, io |-> ops, status |-> how]

\* df.empty, were the check never to fire
NeverEmpty(df) == FALSE

\* llm.py:134
IsEmptyBatch(df) == DfEmpty(df)

\* llm.py:133-156 the ways a call on `file` can end.  A write that raises
\* (to_excel, wb.save) was made in place: it may have failed before the file
\* was touched, or have left a truncated file behind.
append_to_excel(df_new0, file0, sheet_name0) ==
    The({ (
        IF IsEmptyBatch(df_new)
            THEN {Outcome(file, <<>>, "skipped")}
        ELSE IF ~file.exists
            THEN {Outcome(to_excel(df_new, sheet_name), <<"exists", "to_excel">>, "created")}
                 \cup {Outcome(f, <<"exists", "to_excel">>, "raised") : f \in {Absent, Corrupt}}
        ELSE IF ~file.readable
            THEN {Outcome(file, <<"exists", "load_workbook">>, "raised")}
        ELSE {Outcome(AppendedWorkbook(file, df_new, sheet_name),
                      <<"exists", "load_workbook", "save">>, "appended")}
             \cup {Outcome(file, <<"exists", "load_workbook">>, "raised")}
             \cup {Outcome(f, <<"exists", "load_workbook", "save">>, "raised") : f \in {file, Corrupt}}
    ) : df_new \in {df_new0}, file \in {file0}, sheet_name \in {sheet_name0} })

NoBatches == [s \in SheetNames |-> <<>>]

\* the spreadsheet file after a call that ends as o
Ends(o, df_new, sheet_name) ==
    /\ xlsx' = o.file
    /\ io' = o.io
    /\ status' = o.status
    /\ xlsx_before' = xlsx
    /\ batches' = IF o.status \in {"created", "appended"}
                  THEN [batches EXCEPT ![sheet_name] = Append(@, df_new.data)]
                  ELSE batches

\* one call of append_to_excel on the spreadsheet file
CallAppend(df_new, sheet_name) ==
    \E o \in append_to_excel(df_new, xlsx, sheet_name) : Ends(o, df_new, sheet_name)

-----------------------------------------------------------------------------
(* the table builder followed by the appender, on every short table text *)

MaxCsvLen == 6

CsvAlphabet == {"A", ",", NL, SP}

RECURSIVE Strings(_, _)
Strings(alphabet, n) ==
    IF n = 0 THEN {<<>>}
    ELSE LET shorter == Strings(alphabet, n - 1)
         IN  shorter \cup {Append(s, c) : s \in {t \in shorter : Len(t) = n - 1},
                                           c \in alphabet}

CsvInputs == Strings(CsvAlphabet, MaxCsvLen)

SomeMetadata == <<<<"T">>, <<"D">>, <<"P">>>>

\* a spreadsheet left by an earlier run
EarlierWorkbook ==
    Workbook(<<[title |-> DefaultSheet, rows |-> <<<<<<"Z">>, <<"T">>, <<"D">>, <<"P">>>>>>]>>)

InitCsv ==
    /\ pc = "build"
    /\ csv_text \in CsvInputs
    /\ metadata = SomeMetadata
    /\ df_final = EmptyFrame
    /\ xlsx \in {Absent, EarlierWorkbook}
    /\ io = <<>>
    /\ status = "none"
    /\ xlsx_before = xlsx
    /\ batches = NoBatches
    /\ response = None
    /\ NormIdle /\ BatchIdle

\* llm.py:181
BuildTable ==
    /\ pc = "build"
    /\ df_final' = build_dataframe_from_csv(csv_text, metadata[1], metadata[2], metadata[3])
    /\ pc' = "built"
    /\ UNCHANGED <<csv_text, normVars, metaVars, excelVars, batchVars>>

\* llm.py:184
AppendTable ==
    /\ pc = "built"
    /\ CallAppend(df_final, DefaultSheet)
    /\ pc' = "appended"
    /\ UNCHANGED <<tableVars, normVars, metaVars, batchVars>>

NextCsv == BuildTable \/ AppendTable

SpecCsv == InitCsv /\ [][NextCsv]_vars

\* the table blocks of the text that are not blank, trimmed
RECURSIVE NonBlankBlocks(_)
NonBlankBlocks(tables) ==
    IF tables = <<>> THEN <<>>
    ELSE (IF Strip(Head(tables)) = <<>> THEN <<>> ELSE <<Strip(Head(tables))>>)
         \o NonBlankBlocks(Tail(tables))

\* the lines of the blocks, block after block
RECURSIVE BlockLines(_)
BlockLines(blocks) ==
    IF blocks = <<>> THEN <<>>
    ELSE Split(Head(blocks), <<NL>>) \o BlockLines(Tail(blocks))

TableLines == BlockLines(NonBlankBlocks(Split(Strip(csv_text), <<NL, NL>>)))

\* a row without its missing values
RECURSIVE Present(_)
Present(row) ==
    IF row = <<>> THEN <<>>
    ELSE (IF Head(row) = NaN THEN <<>> ELSE <<Head(row)>>) \o Present(Tail(row))

\* C5: the frame has one row per line of the non-blank blocks, in order; each
\* row is the line's cells followed by the metadata, which are its last three
\* columns.
RowsAreCellsThenMetadata ==
    (pc \in {"built", "appended"}) =>
        /\ Len(df_final.data) = Len(TableLines)
        /\ \A i \in 1..Len(df_final.data) :
              LET row == df_final.data[i]
              IN  /\ Present(row) = Split(TableLines[i], <<",">>) \o metadata
                  /\ Len(row) >= 3
                  /\ SubSeq(row, Len(row) - 2, Len(row)) = metadata

\* C6: a blank table text builds an empty frame, and appending that frame
\* does no file operation: the destination is neither created nor modified.
BlankCsvWritesNothing ==
    (pc \in {"built", "appended"} /\ Strip(csv_text) = <<>>) =>
        /\ DfEmpty(df_final)
        /\ (pc = "appended") => (status = "skipped" /\ io = <<>> /\ xlsx = xlsx_before)

\* a whitespace-only text went through the builder and the appender, and no
\* file was created
BlankCsvWitness ==
    /\ pc = "appended"
    /\ csv_text # <<>>
    /\ Strip(csv_text) = <<>>
    /\ ~xlsx.exists

-----------------------------------------------------------------------------
(* a sequence of append_to_excel calls on one destination, first absent *)

\* the number of batches the calls may append in all
MaxBatches == 3

\* the table texts the batches are built from: none, one row, two ragged rows
BatchTexts == { <<>>, <<"A">>, <<"B", ",", "C", NL, "D">> }

RECURSIVE SumLen(_)
SumLen(seqs) == IF seqs = <<>> THEN 0 ELSE Len(Head(seqs)) + SumLen(Tail(seqs))

BatchCount == Len(batches[DefaultSheet]) + Len(batches["Summary"])

InitExcel ==
    /\ pc = "excel"
    /\ csv_text = None
    /\ df_final = EmptyFrame
    /\ metadata = SomeMetadata
    /\ response = None
    /\ ExcelIdle
    /\ NormIdle /\ BatchIdle

\* llm.py:181-184 with any sheet name: a batch is built and appended
AppendBatch ==
    /\ pc = "excel"
    /\ BatchCount < MaxBatches
    /\ \E csv \in BatchTexts, sheet_name \in SheetNames :
          \E df \in {build_dataframe_from_csv(csv, metadata[1], metadata[2], metadata[3])} :
              /\ csv_text' = csv
              /\ df_final' = df
              /\ CallAppend(df, sheet_name)
    /\ UNCHANGED <<pc, normVars, metaVars, batchVars>>

NextExcel == AppendBatch

SpecExcel == InitExcel /\ [][NextExcel]_vars

\* the rows of a sequence of batches, batch after batch
RECURSIVE Flatten(_)
Flatten(seqs) == IF seqs = <<>> THEN <<>> ELSE Head(seqs) \o Flatten(Tail(seqs))

\* C3: after successful calls the sheet's rows are the rows of the non-empty
\* batches in call order, and their number is the sum of the batch sizes.
SheetIsConcatenationOfBatches ==
    xlsx.readable =>
        \A s \in SheetNames :
            /\ SheetRows(xlsx, s) = CellRows(Flatten(batches[s]))
            /\ Len(SheetRows(xlsx, s)) = SumLen(batches[s])

\* a second batch has been appended to a sheet that held a first one
SecondBatchAppended ==
    /\ xlsx.readable
    /\ status = "appended"
    /\ \E s \in SheetNames : Len(batches[s]) >= 2 /\ Len(SheetRows(xlsx, s)) >= 3

\* C4: a call that raises while opening or saving the destination leaves the
\* rows of the earlier calls as they were.
FailedAppendKeepsRows ==
    (status = "raised" /\ xlsx_before.readable) =>
        /\ xlsx.readable
        /\ \A s \in SheetNames : SheetRows(xlsx, s) = SheetRows(xlsx_before, s)

-----------------------------------------------------------------------------
(* ocr.py: the scan of the folder *)

UpperCase == <<"A", "B", "C", "D", "E", "F", "G", "H", "I", "J", "K", "L", "M", "N", "O", "P", "Q", "R", "S", "T", "U", "V", "W", "X", "Y", "Z">>
LowerCase == <<"a", "b", "c", "d", "e", "f", "g", "h", "i", "j", "k", "l", "m", "n", "o", "p", "q", "r", "s", "t", "u", "v", "w", "x", "y", "z">>

\* the position of c in the sequence s, 0 if it is not in it
IndexOf(s0, c0) ==
    The({ (
        IF \E k \in 1..Len(s) : s[k] = c THEN CHOOSE k \in 1..Len(s) : s[k] = c ELSE 0
    ) : s \in {s0}, c \in {c0} })

\* ord(c) for the characters of file names: letters and the dot
Ord(c0) ==
    The({ (
        IF IndexOf(UpperCase, c) # 0 THEN 64 + IndexOf(UpperCase, c)
        ELSE IF IndexOf(LowerCase, c) # 0 THEN 96 + IndexOf(LowerCase, c)
        ELSE 46
    ) : c \in {c0} })

\* a < b on Python strings: by the first character that differs, else by length
StrLess(a0, b0) ==
    The({ (
        LET n    == IF Len(a) < Len(b) THEN Len(a) ELSE Len(b)
            diff == {i \in 1..n : a[i] # b[i]}
        IN  IF diff = {} THEN Len(a) < Len(b)
            ELSE LET i == CHOOSE i \in diff : \A j \in diff : i <= j
                 IN  Ord(a[i]) < Ord(b[i])
    ) : a \in {a0}, b \in {b0} })

\* sorted(names)
RECURSIVE sorted(_)
sorted(names0) ==
    The({ (
        IF names = {} THEN <<>>
        ELSE LET first == CHOOSE x \in names : \A y \in names \ {x} : StrLess(x, y)
             IN  <<first>> \o sorted(names \ {first})
    ) : names \in {names0} })

\* f with its letters left as they are
unlowered(f) == f

\* f.lower()
lower(f0) ==
    The({ (
        [i \in 1..Len(f) |->
            IF IndexOf(UpperCase, f[i]) # 0 THEN LowerCase[IndexOf(UpperCase, f[i])] ELSE f[i]]
    ) : f \in {f0} })

\* os.path.splitext(f)[1] for a name without separators: from the last dot on,
\* unless only dots come before it
splitext(f0) ==
    The({ (
        LET dots == {i \in 1..Len(f) : f[i] = "."}
        IN  IF dots = {} THEN <<>>
            ELSE LET d == CHOOSE i \in dots : \A j \in dots : j <= i
                 IN  IF \E i \in 1..(d - 1) : f[i] # "." THEN Drop(f, d - 1) ELSE <<>>
    ) : f \in {f0} })

\* ocr.py:131
exts == { <<".", "p", "n", "g">>, <<".", "j", "p", "g">>, <<".", "j", "p", "e", "g">>, <<".", "t", "i", "f">>, <<".", "t", "i", "f", "f">>, <<".", "b", "m", "p">> }

\* the names of all_files, in order, that the filter of ocr.py:137 keeps
RECURSIVE Filtered(_)
Filtered(all_files0) ==
    The({ (
        IF all_files = <<>> THEN <<>>
        ELSE (IF splitext(lower(Head(all_files))) \in exts THEN <<Head(all_files)>> ELSE <<>>)
             \o Filtered(Tail(all_files))
    ) : all_files \in {all_files0} })

\* ocr.py:132-138 (a path is kept as the name it ends with)
ImagePaths(names) == Filtered(sorted(names))

-----------------------------------------------------------------------------
(* ocr.py: extract_text_from_image and process_images_folder, with the     *)
(* per-image run_llm_table_extraction of llm.py                            *)

\* the names a folder may hold, and the most it holds
MaxFiles == 3

FileNames ==
    { <<"B", ".", "P", "N", "G">>,
      <<"a", ".", "p", "n", "g">>,
      <<"c", ".", "t", "i", "f", "f">>,
      <<"n", ".", "t", "x", "t">>,
      <<".", "b", "m", "p">> }

Listings == {S \in SUBSET FileNames : Cardinality(S) <= MaxFiles}

\* ocr.py:78 the lines written for a result that holds text
SomeLines == <<"INVOICE (confidence: 0.99)">>

\* ocr.py:99
NoTextMarker == <<"No text found in the image.">>

\* ocr.py:89-99 the text file written for image_path
Written(image_path, body) == [exists |-> TRUE, from |-> image_path, lines |-> body]

\* a text file left by an earlier run
EarlierArtifact == Written(<<"z", ".", "p", "n", "g">>, SomeLines)

\* the table completions of the batch: no table, or two ragged rows
BatchTables == { <<>>, <<"B", ",", "C", NL, "D">> }

\* the metadata completions of the batch: the billing period line is missing
BatchResponses ==
    { Concat(<<TraderLabel, <<SP, "T", NL>>, InvoiceLabel, <<SP, "D">>>>) }

InitBatch ==
    /\ pc = "start"
    /\ folder_exists \in BOOLEAN
    /\ files \in (IF folder_exists THEN Listings ELSE {{}})
    /\ image_paths = <<>>
    /\ idx = 0
    /\ artifact \in {NoArtifact, EarlierArtifact}
    /\ text = NoArtifact
    /\ log = <<>>
    /\ ext_failed = FALSE
    /\ xlsx \in {Absent, EarlierWorkbook}
    /\ io = <<>>
    /\ status = "none"
    /\ xlsx_before = xlsx
    /\ batches = NoBatches
    /\ NormIdle /\ MetaIdle /\ TableIdle

pipelineVars == <<normVars, metaVars, tableVars, excelVars>>

\* ocr.py:127-128 NotADirectoryError
FolderMissing ==
    /\ pc = "start"
    /\ ~folder_exists
    /\ pc' = "raised"
    /\ UNCHANGED <<pipelineVars, batchVars>>

\* ocr.py:131-144 the scan; with no image the function returns
Scan ==
    /\ pc = "start"
    /\ folder_exists
    /\ \E paths \in {ImagePaths(files)} :
          /\ image_paths' = paths
          /\ IF paths = <<>>
             THEN pc' = "done" /\ idx' = idx
             ELSE pc' = "ocr" /\ idx' = 1
    /\ UNCHANGED <<pipelineVars, folder_exists, files, artifact, text, log, ext_failed>>

\* the record of an image the loop starts
Started(image_path, outcome) ==
    [img |-> image_path, ocr |-> outcome, llm |-> 0, rows |-> 0, done |-> FALSE]

\* ocr.py:150 with ocr.py:53-102: OCR returns text, the text file is overwritten
OcrText ==
    /\ pc = "ocr"
    /\ artifact' = Written(image_paths[idx], SomeLines)
    /\ log' = Append(log, Started(image_paths[idx], "text"))
    /\ pc' = "load"
    /\ UNCHANGED <<pipelineVars, folder_exists, files, image_paths, idx, text, ext_failed>>

\* ocr.py:150 with ocr.py:53-102: OCR returns no line, the marker is written
OcrEmpty ==
    /\ pc = "ocr"
    /\ artifact' = Written(image_paths[idx], NoTextMarker)
    /\ log' = Append(log, Started(image_paths[idx], "empty"))
    /\ pc' = "load"
    /\ UNCHANGED <<pipelineVars, folder_exists, files, image_paths, idx, text, ext_failed>>

\* ocr.py:150 with ocr.py:49-51: the image is gone, None is returned; the
\* caller does not look at the returned value
OcrImageMissing ==
    /\ pc = "ocr"
    /\ log' = Append(log, Started(image_paths[idx], "failed"))
    /\ ext_failed' = TRUE
    /\ pc' = "load"
    /\ UNCHANGED <<pipelineVars, folder_exists, files, image_paths, idx, artifact, text>>

\* ocr.py:150 with ocr.py:55, 104-106: OCR raises, None is returned
OcrRaises ==
    /\ pc = "ocr"
    /\ log' = Append(log, Started(image_paths[idx], "failed"))
    /\ ext_failed' = TRUE
    /\ pc' = "load"
    /\ UNCHANGED <<pipelineVars, folder_exists, files, image_paths, idx, artifact, text>>

\* llm.py:167 with llm.py:23-24: no text file, FileNotFoundError leaves the loop
LoadRaises ==
    /\ pc = "load"
    /\ ~artifact.exists
    /\ pc' = "raised"
    /\ UNCHANGED <<pipelineVars, batchVars>>

\* llm.py:167 the text file is read, whichever image it was written for
LoadText ==
    /\ pc = "load"
    /\ artifact.exists
    /\ text' = artifact
    /\ pc' = "table"
    /\ UNCHANGED <<pipelineVars, folder_exists, files, image_paths, idx, artifact, log, ext_failed>>

\* the last record of the log with the number of completions asked raised by one
Asked == [log EXCEPT ![Len(log)].llm = @ + 1]

\* llm.py:170 with llm.py:58-59: the table completion
extract_table_llm ==
    /\ pc = "table"
    /\ csv_text' \in BatchTables
    /\ log' = Asked
    /\ pc' = "meta"
    /\ UNCHANGED <<normVars, metaVars, df_final, excelVars,
                   folder_exists, files, image_paths, idx, artifact, text, ext_failed>>

\* llm.py:173 with llm.py:85-99: the metadata completion and its parse
BatchMetadata ==
    /\ pc = "meta"
    /\ \E completion \in BatchResponses :
          /\ response' = completion
          /\ metadata' = ParseMetadata(completion)
    /\ log' = Asked
    /\ pc' = "append"
    /\ UNCHANGED <<normVars, tableVars, excelVars,
                   folder_exists, files, image_paths, idx, artifact, text, ext_failed>>

\* llm.py:58, llm.py:85: the completion call raises, which leaves the loop
LlmRaises ==
    /\ pc \in {"table", "meta"}
    /\ log' = Asked
    /\ ext_failed' = TRUE
    /\ pc' = "raised"
    /\ UNCHANGED <<pipelineVars, folder_exists, files, image_paths, idx, artifact, text>>

\* ocr.py:55, llm.py:58, llm.py:85: a call to the OCR engine or to the
\* completion service never returns
CallHangs ==
    /\ pc \in {"ocr", "table", "meta"}
    /\ ext_failed' = TRUE
    /\ pc' = "hung"
    /\ UNCHANGED <<pipelineVars, folder_exists, files, image_paths, idx, artifact, text, log>>

\* llm.py:181-184 the frame is built and appended; an append that raises
\* leaves the loop
BuildAndAppend ==
    /\ pc = "append"
    /\ \E df \in {build_dataframe_from_csv(csv_text, metadata[1], metadata[2], metadata[3])} :
           /\ df_final' = df
           /\ \E o \in append_to_excel(df, xlsx, DefaultSheet) :
                 /\ Ends(o, df, DefaultSheet)
                 /\ IF o.status = "raised"
                    THEN /\ pc' = "raised"
                         /\ ext_failed' = TRUE
                         /\ log' = log
                    ELSE /\ pc' = "sleep"
                         /\ ext_failed' = ext_failed
                         /\ log' = [log EXCEPT ![Len(log)].rows =
                                       IF o.status = "skipped" THEN 0 ELSE Len(df.data)]
    /\ UNCHANGED <<normVars, metaVars, csv_text,
                   folder_exists, files, image_paths, idx, artifact, text>>

\* idx + 1, as enumerate gives it
next_index(i) == i + 1

\* ocr.py:158-160, 146: the image is done; after the pause the loop goes on
\* with the next image, or ends
NextImage ==
    /\ pc = "sleep"
    /\ log' = [log EXCEPT ![Len(log)].done = TRUE]
    /\ idx' = next_index(idx)
    /\ pc' = IF next_index(idx) > Len(image_paths) THEN "done" ELSE "ocr"
    /\ UNCHANGED <<pipelineVars, folder_exists, files, image_paths, artifact, text, ext_failed>>

NextBatch ==
    \/ FolderMissing
    \/ Scan
    \/ OcrText
    \/ OcrEmpty
    \/ OcrImageMissing
    \/ OcrRaises
    \/ LoadRaises
    \/ LoadText
    \/ extract_table_llm
    \/ BatchMetadata
    \/ LlmRaises
    \/ CallHangs
    \/ BuildAndAppend
    \/ NextImage

SpecBatch == InitBatch /\ [][NextBatch]_vars

\* the loop is scheduled as long as it has a step to take
FairBatch == SpecBatch /\ WF_vars(NextBatch)

-----------------------------------------------------------------------------
(* properties of the batch loop *)

\* the image extensions, without the dot
ImageExtensions == { <<"p", "n", "g">>, <<"j", "p", "g">>, <<"j", "p", "e", "g">>, <<"t", "i", "f">>, <<"t", "i", "f", "f">>, <<"b", "m", "p">> }

\* c is the lower-case letter d, or its capital
SameLetter(c, d) ==
    c = d \/ (IndexOf(UpperCase, c) # 0 /\ LowerCase[IndexOf(UpperCase, c)] = d)

\* the name ends with a dot and an image extension, in any case, after a stem
HasImageExtension(f) ==
    \E e \in ImageExtensions :
        LET n == Len(f) - Len(e)
        IN  /\ n >= 2
            /\ f[n] = "."
            /\ \A i \in 1..Len(e) : SameLetter(f[n + i], e[i])
            /\ \E i \in 1..(n - 1) : f[i] # "."

ImageNames == {f \in files : HasImageExtension(f)}

HardFailed(k) == log[k].ocr = "failed"

\* C1: an image whose OCR failed hard is skipped: no completion is asked for
\* it, no row is appended for it, and the loop goes on with the next image.
FailedOcrImageIsSkipped ==
    /\ \A k \in 1..Len(log) : HardFailed(k) => (log[k].llm = 0 /\ log[k].rows = 0)
    /\ (Len(log) > 0 /\ HardFailed(Len(log))) => pc # "raised"

\* C2: a step of an image's pipeline that fails does not end the batch: when
\* the batch is over, every image of the folder has been started.
FailureDoesNotAbortBatch ==
    (folder_exists /\ pc \in {"done", "raised"}) =>
        Len(log) = Cardinality(ImageNames)

\* C9: when OCR finds no text the marker line is written, and no row is
\* appended for that image.
EmptyOcrAppendsNothing ==
    /\ (pc = "load" /\ log[Len(log)].ocr = "empty") =>
           (artifact.from = image_paths[idx] /\ artifact.lines = NoTextMarker)
    /\ \A k \in 1..Len(log) : (log[k].ocr = "empty") => log[k].rows = 0

\* the started images are images of the folder in increasing name order, none
\* left out, each fully processed before the next is started; the text in use
\* is the text of the image at hand
BatchOrder ==
    /\ \A k \in 1..Len(log) :
          /\ log[k].img \in ImageNames
          /\ \A f \in ImageNames :
                StrLess(f, log[k].img) <=> (\E j \in 1..(k - 1) : log[j].img = f)
          /\ (k < Len(log)) => log[k].done
    /\ (pc \in {"load", "table", "meta", "append", "sleep"}) =>
          /\ Len(log) = idx
          /\ log[idx].img = image_paths[idx]
          /\ (~HardFailed(idx)) => artifact.from = log[idx].img
          /\ (~HardFailed(idx) /\ pc # "load") => text.from = log[idx].img
    /\ (pc = "ocr") => (Len(log) = idx - 1)
    /\ (pc = "done") =>
          /\ {log[k].img : k \in 1..Len(log)} = ImageNames
          /\ Len(log) = Cardinality(ImageNames)
          /\ \A k \in 1..Len(log) : log[k].done /\ (~HardFailed(k) => log[k].llm = 2)

\* C10: the images of an existing folder are processed in sorted name order,
\* each once and one at a time, and the batch ends with all of them processed
\* unless a call outside the program fails or hangs.
BatchProcessesImagesInOrder ==
    /\ []BatchOrder
    /\ <>(~folder_exists \/ ext_failed \/ pc = "done")

\* a batch of three images, one with a capital extension, ended with all
\* processed and no call failed
WholeBatchDone ==
    /\ pc = "done"
    /\ ~ext_failed
    /\ Len(log) = 3
    /\ \E k \in 1..Len(log) : log[k].img # lower(log[k].img)
    /\ \A k \in 1..Len(log) : log[k].done

====
